---- MODULE Spec2Model ----
(***************************************************************************)
(* Model of hotel/pms_systems.py: the Mews PMS integration.                *)
(*                                                                         *)
(*   - clean_webhook_payload : JSON text -> dict, failing closed           *)
(*   - handle_webhook        : reconcile every event of a webhook payload  *)
(*   - update_tomorrows_stays: nightly reconciliation of tomorrow's stays  *)
(*                                                                         *)
(* JSON texts are sequences of lexical tokens; json.loads is a recursive   *)
(* descent parser over them.  The persistent store is the Stay and Guest   *)
(* tables; the Hotel table is fixed.  The external PMS API is the          *)
(* environment: each call of a handler draws what the API answers.         *)
(***************************************************************************)
EXTENDS Naturals, Sequences, FiniteSets

\* Python's None, and the NULL of the store.
None == "None"

\* `not x` of Python for the strings the handlers test.
Falsy(x) == x = None \/ x = ""

(***************************************************************************)
(* JSON texts and values                                                   *)
(***************************************************************************)
\* Longest payload text (in tokens) given to clean_webhook_payload.
MaxTokens == 5

Tok(t, v) == [t |-> t, v |-> v]

\* The lexical units: punctuation, a string literal, a number literal, the
\* null literal, and a unit that is no JSON token at all (as every word of
\* `not-json`).
Alphabet ==
    { Tok("{", ""), Tok("}", ""), Tok("[", ""), Tok("]", ""), Tok(":", ""),
      Tok(",", ""), Tok("str", "k"), Tok("num", "1"), Tok("null", ""),
      Tok("junk", "") }

\* Decoded values: t is the Python type, v the scalar, kids the children.
\* A dict's children are its items in insertion order, each a "pair" node
\* whose v is the key and whose only child is the value.
Node(t, v, kids) == [t |-> t, v |-> v, kids |-> kids]
NullNode == Node("null", "", << >>)
StrNode(s) == Node("str", s, << >>)
NumNode(s) == Node("num", s, << >>)
BoolNode(s) == Node("bool", s, << >>)
ArrNode(items) == Node("arr", "", items)
ObjNode(pairs) == Node("obj", "", pairs)
PairNode(k, val) == Node("pair", k, << val >>)
EmptyDict == ObjNode(<< >>)

\* d[k] = val of a Python dict: an existing key keeps its position.
DictPut(pairs, k, val) ==
    IF \E i \in 1..Len(pairs) : pairs[i].v = k
    THEN [i \in 1..Len(pairs) |->
            IF pairs[i].v = k THEN PairNode(k, val) ELSE pairs[i]]
    ELSE Append(pairs, PairNode(k, val))

ParseFail == [ok |-> FALSE, val |-> NullNode, next |-> 0]
ParseOk(val, next) == [ok |-> TRUE, val |-> val, next |-> next]

RECURSIVE ParseValue(_, _)
RECURSIVE ParseElems(_, _, _)
RECURSIVE ParseMembers(_, _, _)

\* One JSON value starting at toks[i]; next is the index after it.
ParseValue(toks, i) ==
    IF i > Len(toks) THEN ParseFail
    ELSE LET tk == toks[i] IN
         CASE tk.t = "str" -> ParseOk(StrNode(tk.v), i + 1)
           [] tk.t = "num" -> ParseOk(NumNode(tk.v), i + 1)
           [] tk.t = "null" -> ParseOk(NullNode, i + 1)
           [] tk.t = "true" -> ParseOk(BoolNode("True"), i + 1)
           [] tk.t = "false" -> ParseOk(BoolNode("False"), i + 1)
           [] tk.t = "[" ->
                IF i + 1 <= Len(toks) /\ toks[i + 1].t = "]"
                THEN ParseOk(ArrNode(<< >>), i + 2)
                ELSE ParseElems(toks, i + 1, << >>)
           [] tk.t = "{" ->
                IF i + 1 <= Len(toks) /\ toks[i + 1].t = "}"
                THEN ParseOk(EmptyDict, i + 2)
                ELSE ParseMembers(toks, i + 1, << >>)
           [] OTHER -> ParseFail

\* value ("," value)* "]"
ParseElems(toks, i, acc) ==
    LET r == ParseValue(toks, i) IN
    IF ~r.ok \/ r.next > Len(toks) THEN ParseFail
    ELSE IF toks[r.next].t = "]"
         THEN ParseOk(ArrNode(Append(acc, r.val)), r.next + 1)
         ELSE IF toks[r.next].t = ","
              THEN ParseElems(toks, r.next + 1, Append(acc, r.val))
              ELSE ParseFail

\* string ":" value ("," string ":" value)* "}"
ParseMembers(toks, i, acc) ==
    IF i + 1 > Len(toks) \/ toks[i].t # "str" \/ toks[i + 1].t # ":"
    THEN ParseFail
    ELSE LET r == ParseValue(toks, i + 2) IN
         IF ~r.ok \/ r.next > Len(toks) THEN ParseFail
         ELSE IF toks[r.next].t = "}"
              THEN ParseOk(ObjNode(DictPut(acc, toks[i].v, r.val)), r.next + 1)
              ELSE IF toks[r.next].t = ","
                   THEN ParseMembers(toks, r.next + 1,
                                     DictPut(acc, toks[i].v, r.val))
                   ELSE ParseFail

\* A payload handed to the parser: None, or a text.
NonePayload == [isNone |-> TRUE, text |-> << >>]
Text(toks) == [isNone |-> FALSE, text |-> toks]

\* A text must be one value with nothing after it: r is what the parser
\* made of a text of n tokens.
WholeText(r, n) ==
    IF r.ok /\ r.next = n + 1
    THEN [exc |-> "", val |-> r.val]
    ELSE [exc |-> "JSONDecodeError", val |-> NullNode]

\* json.loads: the decoded value, or the exception it raises.  None is no
\* text at all.
json_loads(payload) ==
    IF payload.isNone THEN [exc |-> "TypeError", val |-> NullNode]
    ELSE WholeText(ParseValue(payload.text, 1), Len(payload.text))

\* The exception classes `except ValueError` catches.
IsValueError(exc) == exc \in {"ValueError", "JSONDecodeError"}

\* Lines 92-97: the except clauses of clean_webhook_payload around a try
\* body that ended as r.
clean_except(r) ==
    IF r.exc = "" THEN [exc |-> "", val |-> r.val]
    ELSE IF IsValueError(r.exc) THEN [exc |-> "", val |-> EmptyDict]
         ELSE [exc |-> r.exc, val |-> NullNode]

\* clean_webhook_payload without its emptiness test.
clean_webhook_payload_NoEmptyTest(payload) == clean_except(json_loads(payload))

\* PMS_Mews.clean_webhook_payload: the value returned, or the exception that
\* propagates.
clean_webhook_payload(payload) ==
    clean_except(IF payload.isNone \/ payload.text = << >>
                 THEN [exc |-> "ValueError", val |-> NullNode]
                 ELSE json_loads(payload))

\* json.dumps, without white space: the text of a value.
RECURSIVE Dumps(_)
RECURSIVE DumpsItems(_, _)
Dumps(n) ==
    CASE n.t = "str" -> << Tok("str", n.v) >>
      [] n.t = "num" -> << Tok("num", n.v) >>
      [] n.t = "null" -> << Tok("null", "") >>
      [] n.t = "bool" -> << Tok(IF n.v = "True" THEN "true" ELSE "false", "") >>
      [] n.t = "arr" -> << Tok("[", "") >> \o DumpsItems(n.kids, 1) \o << Tok("]", "") >>
      [] n.t = "obj" -> << Tok("{", "") >> \o DumpsItems(n.kids, 1) \o << Tok("}", "") >>
      [] n.t = "pair" -> << Tok("str", n.v), Tok(":", "") >> \o Dumps(n.kids[1])

DumpsItems(kids, i) ==
    IF i > Len(kids) THEN << >>
    ELSE Dumps(kids[i])
         \o (IF i < Len(kids) THEN << Tok(",", "") >> ELSE << >>)
         \o DumpsItems(kids, i + 1)


\* dict.get(key) of a decoded dict: the scalar under the key; None when the
\* key is absent or its value is null.
Get(d, k) ==
    IF d.t = "obj" /\ \E i \in 1..Len(d.kids) : d.kids[i].v = k
    THEN LET p == d.kids[CHOOSE i \in 1..Len(d.kids) : d.kids[i].v = k]
         IN  IF p.kids[1].t \in {"str", "num"} THEN p.kids[1].v ELSE None
    ELSE None

\* The JSON text the PMS sends for a dict: a key whose value is None is left
\* out.
RECURSIVE DictPairs(_, _, _)
DictPairs(keys, rec, i) ==
    IF i > Len(keys) THEN << >>
    ELSE (IF rec[keys[i]] = None THEN << >>
          ELSE << PairNode(keys[i], StrNode(rec[keys[i]])) >>)
         \o DictPairs(keys, rec, i + 1)

DictText(keys, rec) == Text(Dumps(ObjNode(DictPairs(keys, rec, 1))))

(***************************************************************************)
(* The store: Hotel, Stay and Guest tables                                 *)
(***************************************************************************)
\* The Hotel table: never written by this module.
Hotel == { [pk |-> 1, pms_hotel_id |-> "h1"], [pk |-> 2, pms_hotel_id |-> "h2"] }

\* Hotel.objects.get(pms_hotel_id=...)
Hotel_get(pms_hotel_id) ==
    LET m == { h \in Hotel : h.pms_hotel_id = pms_hotel_id } IN
    IF Cardinality(m) = 1
    THEN [exc |-> "", pk |-> (CHOOSE h \in m : TRUE).pk]
    ELSE [exc |-> IF m = {} THEN "DoesNotExist" ELSE "MultipleObjectsReturned",
          pk |-> 0]

\* ISO dates the model knows; << >> is NULL, and what no date parses to.
NoDate == << >>
IsoDate(s) ==
    CASE s = "2024-05-01" -> << 2024, 5, 1 >>
      [] s = "2024-05-03" -> << 2024, 5, 3 >>
      [] OTHER -> NoDate

\* Values given for a DateField: None, a str, or a datetime.
PyStr(s) == [kind |-> IF s = None THEN "none" ELSE "str", s |-> s, dt |-> << >>]
PyDatetime(dt) == [kind |-> "datetime", s |-> "", dt |-> dt]

\* datetime.strptime(s, '%Y-%m-%d')
strptime(s) ==
    IF s = None THEN [exc |-> "TypeError", val |-> PyStr(None)]
    ELSE IF IsoDate(s) = NoDate THEN [exc |-> "ValueError", val |-> PyStr(None)]
         ELSE [exc |-> "", val |-> PyDatetime(IsoDate(s) \o << 0, 0 >>)]

\* The Stay model: checkin and checkout accept NULL.
StayDateNullable == TRUE

\* What the Stay model's date column makes of a value when the row is saved.
DateField_to_python(x) ==
    CASE x.kind = "none" ->
           [exc |-> IF StayDateNullable THEN "" ELSE "IntegrityError",
            date |-> NoDate]
      [] x.kind = "datetime" -> [exc |-> "", date |-> SubSeq(x.dt, 1, 3)]
      [] OTHER -> IF IsoDate(x.s) = NoDate
                  THEN [exc |-> "ValidationError", date |-> NoDate]
                  ELSE [exc |-> "", date |-> IsoDate(x.s)]

\* A Stay row; guest is the Guest's pk, 0 when NULL.
NewStay(rid, hotel) ==
    [pms_reservation_id |-> rid, hotel |-> hotel, pms_guest_id |-> None,
     checkin |-> NoDate, checkout |-> NoDate, status |-> None, guest |-> 0]

StayMatches(stays, rid, hotel) ==
    { s \in stays : s.pms_reservation_id = rid /\ s.hotel = hotel }

\* Stay.objects.update_or_create that inserts without looking up.
Stay_update_or_create_AlwaysInsert(stays, rid, hotel, defaults) ==
    LET ci == DateField_to_python(defaults.checkin)
        co == DateField_to_python(defaults.checkout)
        row == [NewStay(rid, hotel) EXCEPT
                  !.pms_guest_id = defaults.pms_guest_id,
                  !.checkin = ci.date, !.checkout = co.date,
                  !.status = defaults.status]
    IN  IF ci.exc # "" \/ co.exc # ""
        THEN [exc |-> "ValidationError", stays |-> stays, row |-> NewStay(rid, hotel)]
        ELSE [exc |-> "", stays |-> stays \cup {row}, row |-> row]

\* Stay.objects.update_or_create that leaves a row it finds as it is.
Stay_update_or_create_KeepsFound(stays, rid, hotel, defaults) ==
    LET m == StayMatches(stays, rid, hotel)
        r == Stay_update_or_create_AlwaysInsert(stays \ m, rid, hotel, defaults)
    IN  IF m = {} \/ r.exc # "" THEN [r EXCEPT !.stays = stays \cup (r.stays \ stays)]
        ELSE [exc |-> "", stays |-> stays, row |-> CHOOSE x \in m : TRUE]

\* Stay.objects.update_or_create(pms_reservation_id=, hotel=, defaults=):
\* the table afterwards and the row written, or the exception raised.
Stay_update_or_create(stays, rid, hotel, defaults) ==
    LET m == StayMatches(stays, rid, hotel)
        ci == DateField_to_python(defaults.checkin)
        co == DateField_to_python(defaults.checkout)
        old == IF m = {} THEN NewStay(rid, hotel) ELSE CHOOSE s \in m : TRUE
        row == [old EXCEPT !.pms_guest_id = defaults.pms_guest_id,
                           !.checkin = ci.date, !.checkout = co.date,
                           !.status = defaults.status]
    IN  IF Cardinality(m) > 1
        THEN [exc |-> "MultipleObjectsReturned", stays |-> stays, row |-> old]
        ELSE IF ci.exc # "" \/ co.exc # ""
             THEN [exc |-> IF ci.exc # "" THEN ci.exc ELSE co.exc,
                   stays |-> stays, row |-> old]
             ELSE [exc |-> "", stays |-> (stays \ m) \cup {row}, row |-> row]

\* stay.guest = guest; stay.save()
Stay_save_guest(stays, row, guest) ==
    (stays \ {row}) \cup { [row EXCEPT !.guest = guest] }

\* The Guest model: name is NOT NULL, language is NULL until assigned.
GuestNameNullable == FALSE
GuestLanguageDefault == None

\* Guest.objects.update_or_create that inserts without looking up.
Guest_update_or_create_AlwaysInsert(guests, phone, name) ==
    LET row == [pk |-> Cardinality(guests) + 1, phone |-> phone, name |-> name,
                language |-> GuestLanguageDefault]
    IN  IF name = None /\ ~GuestNameNullable
        THEN [exc |-> "IntegrityError", guests |-> guests, row |-> row]
        ELSE [exc |-> "", guests |-> guests \cup {row}, row |-> row]

\* Guest.objects.get_or_create in its place: a Guest that is found keeps
\* its name.
Guest_update_or_create_KeepsName(guests, phone, name) ==
    IF \E g \in guests : g.phone = phone
    THEN [exc |-> "", guests |-> guests,
          row |-> CHOOSE g \in guests : g.phone = phone]
    ELSE Guest_update_or_create_AlwaysInsert(guests, phone, name)

\* Guest.objects.update_or_create(phone=, defaults={"name": }): the language
\* column is never among the values written.
Guest_update_or_create(guests, phone, name) ==
    LET m == { g \in guests : g.phone = phone }
        old == IF m = {}
               THEN [pk |-> Cardinality(guests) + 1, phone |-> phone,
                     name |-> name, language |-> GuestLanguageDefault]
               ELSE CHOOSE g \in m : TRUE
        row == [old EXCEPT !.name = name]
    IN  IF Cardinality(m) > 1
        THEN [exc |-> "MultipleObjectsReturned", guests |-> guests, row |-> old]
        ELSE IF name = None /\ ~GuestNameNullable
             THEN [exc |-> "IntegrityError", guests |-> guests, row |-> old]
             ELSE [exc |-> "", guests |-> (guests \ m) \cup {row}, row |-> row]

\* validate_phone_number that lets an empty phone pass.
validate_phone_number_NoneOnly(phone_number) ==
    IF phone_number = None THEN "ValueError" ELSE ""

\* validate_phone_number: the exception raised, "" when none.  The format
\* check is commented out in the source.
validate_phone_number(phone_number) ==
    IF Falsy(phone_number) THEN "ValueError" ELSE ""

\* A transaction block that keeps the writes of a body that raised.
atomic_NoRollback(db0, r) == r

\* `with transaction.atomic():` around a body that started from db0 and
\* ended as r: a body that raised is rolled back to db0, and the exception
\* goes on.
atomic(db0, r) == IF r.exc # "" THEN [r EXCEPT !.db = db0] ELSE r


(***************************************************************************)
(* The external PMS API, as one call of a handler sees it                  *)
(***************************************************************************)
ApiError == [err |-> TRUE, body |-> NonePayload]
ApiBody(text) == [err |-> FALSE, body |-> text]

ReservationKeys == << "GuestId", "CheckInDate", "CheckOutDate", "Status" >>
GuestKeys == << "Name", "Phone", "Country" >>

\* What the PMS holds about a reservation or a guest: an error to raise, or
\* the details to send.
Raises == [err |-> TRUE, d |-> << >>]
Sends(d) == [err |-> FALSE, d |-> d]

\* get_reservation_details(reservation_id) and get_guest_details(guest_id):
\* api maps a reservation id to what the PMS holds about the reservation and
\* about its guest during this call; the details travel as JSON text.
get_reservation_details(api, reservation_id) ==
    IF api[reservation_id].res.err THEN ApiError
    ELSE ApiBody(DictText(ReservationKeys, api[reservation_id].res.d))

get_guest_details(api, reservation_id, guest_id) ==
    IF api[reservation_id].guest.err THEN ApiError
    ELSE ApiBody(DictText(GuestKeys, api[reservation_id].guest.d))

\* One external fetch, as recorded by the model: the position of the event
\* or entry it was made for, the call, and the id asked for.
Fetch(i, what, id) == [i |-> i, what |-> what, id |-> id]

\* The result of a handler or of a part of it: the exception that leaves it
\* ("" when none), the store, the fetches made, and the positions of the
\* events or entries whose reconciliation ended without exception.
Outcome(exc, db, fetched, done) ==
    [exc |-> exc, db |-> db, fetched |-> fetched, done |-> done, skipped |-> {}]

(***************************************************************************)
(* handle_webhook                                                          *)
(***************************************************************************)
\* Lines 142-144: the Guest upsert has ended as g.
block_link(db1, st, g) ==
    IF g.exc # "" THEN [exc |-> g.exc, db |-> db1]
    ELSE [exc |-> "",
          db |-> [stays |-> Stay_save_guest(db1.stays, st.row, g.row.pk),
                  guests |-> g.guests]]

\* Lines 132-144: the transaction block once the Stay upsert has ended as
\* st, the store being db1 then.
block_guest(db1, st, phone_number, name) ==
    IF validate_phone_number(phone_number) # ""
    THEN [exc |-> validate_phone_number(phone_number), db |-> db1]
    ELSE block_link(db1, st, Guest_update_or_create(db1.guests, phone_number, name))

\* Lines 122-144: the transaction block, the Stay upsert having ended as st.
block_stay(db, st, phone_number, name) ==
    IF st.exc # "" THEN [exc |-> st.exc, db |-> db]
    ELSE block_guest([db EXCEPT !.stays = st.stays], st, phone_number, name)

\* Lines 120-144: the body of the inner transaction block for one event.
webhook_block(db, hotel, reservation_id, reservation_details, guest_details) ==
    block_stay(db,
               Stay_update_or_create(db.stays, reservation_id, hotel,
                 [pms_guest_id |-> Get(reservation_details, "GuestId"),
                  checkin |-> PyStr(Get(reservation_details, "CheckInDate")),
                  checkout |-> PyStr(Get(reservation_details, "CheckOutDate")),
                  status |-> Get(reservation_details, "Status")]),
               Get(guest_details, "Phone"), Get(guest_details, "Name"))

\* The fetches an iteration has made when it asks for the guest.
Fetches(i, reservation_id, guest_id) ==
    << Fetch(i, "reservation", reservation_id) >>
    \o (IF ~Falsy(guest_id) THEN << Fetch(i, "guest", guest_id) >> ELSE << >>)

\* get_guest_details(guest_id) if guest_id else "{}"
guest_or_empty(api, reservation_id, guest_id) ==
    IF ~Falsy(guest_id) THEN get_guest_details(api, reservation_id, guest_id)
    ELSE ApiBody(Text(Dumps(EmptyDict)))

\* Line 120: the transaction block of event i has ended as r.
event_outcome(r, fetched, i) ==
    Outcome(r.exc, r.db, fetched, IF r.exc = "" THEN {i} ELSE {})

\* Lines 115-144: the guest fetch has ended as gr.
event_guest(db, hotel, reservation_id, reservation_details, gr, fetched, i) ==
    IF gr.err THEN Outcome("APIError", db, fetched, {})
    ELSE event_outcome(atomic(db, webhook_block(db, hotel, reservation_id,
                                    reservation_details,
                                    clean_webhook_payload(gr.body).val)),
                       fetched, i)

\* Lines 114-144: the reservation details are there.
event_details(db, hotel, reservation_id, reservation_details, i, api) ==
    event_guest(db, hotel, reservation_id, reservation_details,
                guest_or_empty(api, reservation_id,
                               Get(reservation_details, "GuestId")),
                Fetches(i, reservation_id, Get(reservation_details, "GuestId")),
                i)

\* Lines 113-144: the reservation fetch has ended as rr.
event_reservation(db, hotel, reservation_id, rr, i, api) ==
    IF rr.err
    THEN Outcome("APIError", db, << Fetch(i, "reservation", reservation_id) >>, {})
    ELSE event_details(db, hotel, reservation_id,
                       clean_webhook_payload(rr.body).val, i, api)

\* Lines 109-144: one event of the loop, from its reservation id to the end
\* of its transaction block.
webhook_event(db, hotel, event, i, api) ==
    IF Falsy(event.ReservationId) THEN Outcome("ValueError", db, << >>, {})
    ELSE event_reservation(db, hotel, event.ReservationId,
                           get_reservation_details(api, event.ReservationId),
                           i, api)

\* An iteration that ended as e, followed by the iterations that ended as
\* rest.
Joined(e, rest) ==
    [rest EXCEPT !.fetched = e.fetched \o rest.fetched,
                 !.done = e.done \cup rest.done]

\* The loop with a failing event skipped instead of ending the call.
RECURSIVE webhook_events_SkipFailed(_, _, _, _, _)
webhook_events_after_SkipFailed(e, hotel, events, i, api) ==
    Joined(e, webhook_events_SkipFailed(e.db, hotel, events, i + 1, api))

webhook_events_SkipFailed(db, hotel, events, i, api) ==
    IF i > Len(events) THEN Outcome("", db, << >>, {})
    ELSE webhook_events_after_SkipFailed(
             webhook_event(db, hotel, events[i], i, api), hotel, events, i, api)

\* The loop of lines 108-144 from event i on, whose first failing event
\* ends it.
RECURSIVE webhook_events(_, _, _, _, _)

\* Event i has ended as e: an exception leaves the loop.
webhook_events_after(e, hotel, events, i, api) ==
    IF e.exc # "" THEN e
    ELSE Joined(e, webhook_events(e.db, hotel, events, i + 1, api))

webhook_events(db, hotel, events, i, api) ==
    IF i > Len(events) THEN Outcome("", db, << >>, {})
    ELSE webhook_events_after(webhook_event(db, hotel, events[i], i, api),
                              hotel, events, i, api)

\* The try body going on with a hotel that was not found.
webhook_hotel_NotFoundGoesOn(db, hotel, webhook_data, api) ==
    IF ~webhook_data.hasEvents THEN Outcome("TypeError", db, << >>, {})
    ELSE webhook_events(db, hotel.pk, webhook_data.Events, 1, api)

\* Lines 105-144: Hotel.objects.get has ended as hotel.
webhook_hotel(db, hotel, webhook_data, api) ==
    IF hotel.exc # "" THEN Outcome(hotel.exc, db, << >>, {})
    ELSE IF ~webhook_data.hasEvents THEN Outcome("TypeError", db, << >>, {})
    ELSE webhook_events(db, hotel.pk, webhook_data.Events, 1, api)

\* Lines 101-144: the try body of handle_webhook; exc is the exception the
\* except clauses receive.
handle_webhook_body(db, webhook_data, api) ==
    IF Falsy(webhook_data.HotelId) THEN Outcome("ValueError", db, << >>, {})
    ELSE webhook_hotel(db, Hotel_get(webhook_data.HotelId), webhook_data, api)

\* Lines 146-156: what the handler returns when its try body ended as b:
\* False when an except clause caught an exception.
Returns(b, db) ==
    [ret |-> (b.exc = ""), db |-> db, fetched |-> b.fetched, done |-> b.done,
     skipped |-> b.skipped]

\* handle_webhook whose exceptions leave the decorated function, so that
\* the outer transaction rolls back.
handle_webhook_caught_OuterRollsBack(db, b) == Returns(b, atomic(db, b).db)

\* PMS_Mews.handle_webhook: every exception of the body is caught and
\* turned into False, so none leaves the decorated function and the outer
\* transaction commits what the body left.
handle_webhook_caught(db, b) == Returns(b, atomic(db, [b EXCEPT !.exc = ""]).db)

handle_webhook(db, webhook_data, api) ==
    handle_webhook_caught(db, handle_webhook_body(db, webhook_data, api))


(***************************************************************************)
(* update_tomorrows_stays                                                  *)
(***************************************************************************)
\* What `for stay_data in stays_to_update` iterates over: the items of a
\* list, the keys of a dict.
Iterate(val) ==
    IF val.t = "arr" THEN val.kids
    ELSE [i \in 1..Len(val.kids) |-> StrNode(val.kids[i].v)]

\* A block result with the fetches made inside the block.
WithFetched(r, f) == [exc |-> r.exc, db |-> r.db, fetched |-> f]

\* Lines 211-224: the guest details are there.
nightly_validate(db1, st, guest_details, f) ==
    WithFetched(block_guest(db1, st, Get(guest_details, "Phone"),
                            Get(guest_details, "Name")), f)

\* Lines 208-224: the guest fetch inside the block has ended as gr.
nightly_guest(db1, st, gr, f) ==
    IF gr.err THEN [exc |-> "APIError", db |-> db1, fetched |-> f]
    ELSE nightly_validate(db1, st, clean_webhook_payload(gr.body).val, f)

\* Lines 197-224: the Stay upsert has ended as st.
nightly_stay(db, st, reservation_id, guest_id, i, api) ==
    IF st.exc # "" THEN [exc |-> st.exc, db |-> db, fetched |-> << >>]
    ELSE nightly_guest([db EXCEPT !.stays = st.stays], st,
                       guest_or_empty(api, reservation_id, guest_id),
                       IF ~Falsy(guest_id) THEN << Fetch(i, "guest", guest_id) >>
                       ELSE << >>)

\* Lines 197-224: both dates have been through strptime.
nightly_dates(db, hotel, reservation_id, status, guest_id, checkin, checkout, i, api) ==
    IF checkin.exc # "" THEN [exc |-> checkin.exc, db |-> db, fetched |-> << >>]
    ELSE IF checkout.exc # ""
    THEN [exc |-> checkout.exc, db |-> db, fetched |-> << >>]
    ELSE nightly_stay(db,
                      Stay_update_or_create(db.stays, reservation_id, hotel,
                        [status |-> status, pms_guest_id |-> guest_id,
                         checkin |-> checkin.val, checkout |-> checkout.val]),
                      reservation_id, guest_id, i, api)

\* Lines 195-224: the body of the transaction block for one entry.  The
\* guest is fetched inside the block, after the Stay is written.
nightly_block(db, hotel, reservation_id, reservation_details, guest_id, i, api) ==
    nightly_dates(db, hotel, reservation_id,
                  Get(reservation_details, "Status"), guest_id,
                  strptime(Get(reservation_details, "CheckInDate")),
                  strptime(Get(reservation_details, "CheckOutDate")), i, api)

\* An entry that was skipped.
Skipped(db, i) ==
    [exc |-> "", db |-> db, fetched |-> << >>, done |-> {}, skipped |-> {i}]

\* Line 195: the transaction block of entry i has ended as r.
entry_outcome(r, f1, i) ==
    [exc |-> r.exc, db |-> r.db, fetched |-> f1 \o r.fetched,
     done |-> IF r.exc = "" THEN {i} ELSE {}, skipped |-> {}]

\* An entry whose block runs outside any transaction.
entry_hotel_NoTransaction(db, hotel, reservation_id, reservation_details, f1, i, api) ==
    IF hotel.exc # "" THEN Outcome(hotel.exc, db, f1, {})
    ELSE entry_outcome(nightly_block(db, hotel.pk, reservation_id,
                                     reservation_details,
                                     Get(reservation_details, "GuestId"), i, api),
                       f1, i)

\* Lines 194-224: Hotel.objects.get has ended as hotel.
entry_hotel(db, hotel, reservation_id, reservation_details, f1, i, api) ==
    IF hotel.exc # "" THEN Outcome(hotel.exc, db, f1, {})
    ELSE entry_outcome(atomic(db, nightly_block(db, hotel.pk, reservation_id,
                                    reservation_details,
                                    Get(reservation_details, "GuestId"), i, api)),
                       f1, i)

\* Lines 189-224: the reservation fetch has ended as rr.
entry_reservation(db, reservation_id, hotel_id, rr, i, api) ==
    IF rr.err
    THEN Outcome("APIError", db, << Fetch(i, "reservation", reservation_id) >>, {})
    ELSE entry_hotel(db, Hotel_get(hotel_id), reservation_id,
                     clean_webhook_payload(rr.body).val,
                     << Fetch(i, "reservation", reservation_id) >>, i, api)

\* Lines 180-224: the ids of the entry have been read.
entry_ids(db, reservation_id, hotel_id, i, api) ==
    IF ~(~Falsy(reservation_id) /\ ~Falsy(hotel_id)) THEN Skipped(db, i)
    ELSE entry_reservation(db, reservation_id, hotel_id,
                           get_reservation_details(api, reservation_id), i, api)

\* Lines 179-224: one entry of the loop.  skipped tells the `continue` of
\* line 186.
nightly_entry(db, stay_data, i, api) ==
    IF stay_data.t # "obj" THEN Outcome("AttributeError", db, << >>, {})
    ELSE entry_ids(db, Get(stay_data, "ReservationId"),
                   Get(stay_data, "HotelId"), i, api)

\* An entry that ended as e, followed by the entries that ended as rest.
JoinedEntries(e, rest) ==
    [rest EXCEPT !.fetched = e.fetched \o rest.fetched,
                 !.done = e.done \cup rest.done,
                 !.skipped = e.skipped \cup rest.skipped]

\* The loop in which an entry lacking an id ends the run with an error.
RECURSIVE nightly_entries_StubFails(_, _, _, _)
nightly_entries_after_StubFails(e, entries, i, api) ==
    IF e.exc # "" THEN e
    ELSE IF e.skipped # {} THEN [e EXCEPT !.exc = "ValueError"]
    ELSE JoinedEntries(e, nightly_entries_StubFails(e.db, entries, i + 1, api))

nightly_entries_StubFails(db, entries, i, api) ==
    IF i > Len(entries) THEN Outcome("", db, << >>, {})
    ELSE nightly_entries_after_StubFails(nightly_entry(db, entries[i], i, api),
                                         entries, i, api)

\* The loop of lines 178-224 from entry i on: each entry commits on its
\* own, and the first entry that raises ends the loop.
RECURSIVE nightly_entries(_, _, _, _)

\* The loop that takes the next entry after an entry that raised.
nightly_entries_after_GoesOn(e, entries, i, api) ==
    JoinedEntries(e, nightly_entries(e.db, entries, i + 1, api))

\* Entry i has ended as e: an exception leaves the loop.
nightly_entries_after(e, entries, i, api) ==
    IF e.exc # "" THEN e
    ELSE JoinedEntries(e, nightly_entries(e.db, entries, i + 1, api))

nightly_entries(db, entries, i, api) ==
    IF i > Len(entries) THEN Outcome("", db, << >>, {})
    ELSE nightly_entries_after(nightly_entry(db, entries[i], i, api),
                               entries, i, api)

StubKeys == << "ReservationId", "HotelId" >>

\* The JSON text of a list of entries.
StubsText(stubs) ==
    Text(Dumps(ArrNode([i \in 1..Len(stubs) |->
                          ObjNode(DictPairs(StubKeys, stubs[i], 1))])))

\* get_reservations_between_dates(start, end): an error, a text that is no
\* JSON, or the JSON text of the list of entries.
get_reservations_between_dates(pms) ==
    CASE pms.kind = "error" -> ApiError
      [] pms.kind = "junk" -> ApiBody(Text(<< Tok("junk", "") >>))
      [] OTHER -> ApiBody(StubsText(pms.stubs))

\* Lines 178-224: the answer has been decoded as stays_to_update.
nightly_loop(db, stays_to_update, api) ==
    IF stays_to_update.t \notin {"arr", "obj"} THEN Outcome("TypeError", db, << >>, {})
    ELSE nightly_entries(db, Iterate(stays_to_update), 1, api)

\* Lines 174-224: the try body of update_tomorrows_stays, from the answer
\* between_dates of get_reservations_between_dates on.
update_tomorrows_stays_body(db, between_dates, api) ==
    IF between_dates.err THEN Outcome("APIError", db, << >>, {})
    ELSE nightly_loop(db, clean_webhook_payload(between_dates.body).val, api)

\* Lines 227-236: the job returns True, or False from an except clause; no
\* transaction surrounds the loop.
update_tomorrows_stays_caught(b) == Returns(b, b.db)

\* PMS_Mews.update_tomorrows_stays: pms is what the PMS holds about
\* tomorrow's reservations.
update_tomorrows_stays(db, pms, api) ==
    update_tomorrows_stays_caught(
        update_tomorrows_stays_body(db, get_reservations_between_dates(pms), api))


(***************************************************************************)
(* stay_has_breakfast                                                      *)
(***************************************************************************)
\* Line 244: reservation_details.get("BreakfastIncluded", False); a value
\* that is no dict has no get.
breakfast_included(reservation_details) ==
    IF reservation_details.t # "obj"
    THEN [exc |-> "AttributeError", val |-> NullNode]
    ELSE IF \E i \in 1..Len(reservation_details.kids) :
              reservation_details.kids[i].v = "BreakfastIncluded"
    THEN [exc |-> "",
          val |-> reservation_details.kids[
                     CHOOSE i \in 1..Len(reservation_details.kids) :
                       reservation_details.kids[i].v = "BreakfastIncluded"].kids[1]]
    ELSE [exc |-> "", val |-> BoolNode("False")]

\* Lines 241-246: the try body once clean_webhook_payload has ended as c.
breakfast_details(c) == IF c.exc # "" THEN c ELSE breakfast_included(c.val)

\* Lines 246-250: the value returned when the try body ended as r: None
\* from the except clause.
breakfast_except(r) == IF r.exc # "" THEN NullNode ELSE r.val

\* PMS_Mews.stay_has_breakfast: answer is what get_reservation_details
\* does for the stay's reservation id.
stay_has_breakfast(answer) ==
    breakfast_except(IF answer.err
                     THEN [exc |-> "APIError", val |-> NullNode]
                     ELSE breakfast_details(clean_webhook_payload(answer.body)))


(***************************************************************************)
(* The inputs the environment draws                                        *)
(***************************************************************************)
\* Events of one webhook payload, entries of one nightly answer, and calls
\* of the handlers in one run.
MaxEvents == 2
MaxStubs == 2
MaxCalls == 2

ReservationIds == {"r1", "r2"}
HotelIds == {None, "", "h1", "h9"}

ResBase ==
    [GuestId |-> "g1", CheckInDate |-> "2024-05-01",
     CheckOutDate |-> "2024-05-03", Status |-> "Confirmed"]
GuestBase == [Name |-> "Jan", Phone |-> "+31612345678", Country |-> "nl"]

\* Reservation details the PMS may hold: the base, and the base with one
\* field changed (another guest, no guest, a text that is no date, no
\* check-out date, another status).
ResDetails ==
    { ResBase,
      [ResBase EXCEPT !.GuestId = "g2", !.Status = "Cancelled"],
      [ResBase EXCEPT !.GuestId = None],
      [ResBase EXCEPT !.CheckInDate = "not-a-date"],
      [ResBase EXCEPT !.CheckOutDate = None] }

\* Guest details the PMS may hold.
GuestDetails ==
    { GuestBase,
      [GuestBase EXCEPT !.Name = "Piet", !.Country = "de"],
      [GuestBase EXCEPT !.Name = ""],
      [GuestBase EXCEPT !.Name = None],
      [GuestBase EXCEPT !.Phone = "+4915112345678", !.Country = "xx"],
      [GuestBase EXCEPT !.Phone = ""],
      [GuestBase EXCEPT !.Phone = None],
      [GuestBase EXCEPT !.Country = None] }

\* What the PMS answers about one reservation and its guest during a call:
\* an error for the reservation, an error for the guest, or both details,
\* one of them the base.
Answers ==
    { [res |-> Raises, guest |-> Raises],
      [res |-> Sends(ResBase), guest |-> Raises] }
    \cup { [res |-> Sends(r), guest |-> Sends(GuestBase)] : r \in ResDetails }
    \cup { [res |-> Sends(ResBase), guest |-> Sends(g)] : g \in GuestDetails }

Event(rid) == [ReservationId |-> rid]
EventLists ==
    UNION { [1..n -> {Event(r) : r \in ReservationIds \cup {None}}] : n \in 0..MaxEvents }

\* Entries of the nightly answer: well-formed ones, and stubs lacking an id
\* or naming no Hotel.
Stub(rid, hid) == [ReservationId |-> rid, HotelId |-> hid]
Stubs ==
    { Stub("r1", "h1"), Stub("r1", "h2"), Stub("r2", "h1"),
      Stub(None, "h1"), Stub("r2", None), Stub("r1", "h9") }
StubLists == UNION { [1..n -> Stubs] : n \in 0..MaxStubs }

\* The reservation ids a call can ask the PMS about.
IdsOf(seq) ==
    { seq[i].ReservationId : i \in 1..Len(seq) } \cap ReservationIds

\* Reservations that, during one call, the PMS answers about otherwise than
\* with the base details.
MaxOdd == 1
BaseAnswer == [res |-> Sends(ResBase), guest |-> Sends(GuestBase)]

\* What the PMS holds during one call about the reservations named in it.
ApiChoices(ids) ==
    { f \in [ids -> Answers] :
        Cardinality({ r \in ids : f[r] # BaseAnswer }) <= MaxOdd }

(***************************************************************************)
(* State                                                                   *)
(***************************************************************************)
VARIABLES
    stays,      \* the Stay table
    guests,     \* the Guest table
    pc,         \* "idle", or "returned" when a handler has just returned
    op,         \* the handler that returned
    args,       \* what it was called with and what the PMS answered
    result,     \* what it returned, and what it did on the way
    before,     \* the store when it was called
    ncalls,     \* handler calls so far
    payload,    \* the text given to clean_webhook_payload
    cleaned,    \* what clean_webhook_payload made of it
    cleanpc,    \* "input" or "done"
    breakfast,  \* a call of stay_has_breakfast: the PMS's answer, the return
    job,        \* a nightly job under way: its entries and the next one
    hook        \* a webhook delivered while the job is under way

vars == << stays, guests, pc, op, args, result, before, ncalls,
           payload, cleaned, cleanpc, breakfast, job, hook >>

DB == [stays |-> stays, guests |-> guests]
EmptyDB == [stays |-> {}, guests |-> {}]

NoArgs ==
    [HotelId |-> None, hasEvents |-> FALSE, Events |-> << >>,
     tomorrow |-> "error", stubs |-> << >>, api |-> << >>]
NoResult == [ret |-> FALSE, fetched |-> << >>, done |-> {}, skipped |-> {}]

NoBreakfast == [pc |-> "none", answer |-> ApiError, ret |-> NullNode]
NoJob == [pc |-> "none", stubs |-> << >>, api |-> << >>, i |-> 1, ret |-> FALSE]
NoHook == [pc |-> "none", data |-> NoArgs, ret |-> FALSE]

StoreInit ==
    /\ stays = {}
    /\ guests = {}
    /\ pc = "idle"
    /\ op = "none"
    /\ args = NoArgs
    /\ result = NoResult
    /\ before = EmptyDB
    /\ ncalls = 0

Init ==
    /\ StoreInit
    /\ payload = NonePayload
    /\ cleaned = [exc |-> "", val |-> EmptyDict]
    /\ cleanpc = "done"
    /\ breakfast = NoBreakfast
    /\ job = NoJob
    /\ hook = NoHook

Returned(name, a, r) ==
    /\ stays' = r.db.stays
    /\ guests' = r.db.guests
    /\ pc' = "returned"
    /\ op' = name
    /\ args' = a
    /\ result' = [ret |-> r.ret, fetched |-> r.fetched, done |-> r.done,
                  skipped |-> r.skipped]
    /\ before' = DB
    /\ ncalls' = ncalls + 1
    /\ UNCHANGED << payload, cleaned, cleanpc, breakfast, job, hook >>

\* A webhook arrives and handle_webhook runs to its return.
HandleWebhook ==
    /\ pc = "idle"
    /\ ncalls < MaxCalls
    /\ \E hotel_id \in HotelIds, hasEvents \in BOOLEAN, events \in EventLists :
         /\ hasEvents \/ events = << >>
         /\ \E api \in ApiChoices(IdsOf(events)) :
              LET a == [NoArgs EXCEPT !.HotelId = hotel_id,
                                      !.hasEvents = hasEvents,
                                      !.Events = events, !.api = api]
              IN  Returned("handle_webhook", a, handle_webhook(DB, a, api))

\* The nightly job runs to its return.
UpdateTomorrowsStays ==
    /\ pc = "idle"
    /\ ncalls < MaxCalls
    /\ \E kind \in {"error", "junk", "list"}, stubs \in StubLists :
         /\ kind = "list" \/ stubs = << >>
         /\ \E api \in ApiChoices(IdsOf(stubs)) :
              LET a == [NoArgs EXCEPT !.tomorrow = kind, !.stubs = stubs,
                                      !.api = api]
              IN  Returned("update_tomorrows_stays", a,
                           update_tomorrows_stays(DB,
                               [kind |-> kind, stubs |-> stubs], api))

\* The caller takes the result; the call is over.
Return ==
    /\ pc = "returned"
    /\ pc' = "idle"
    /\ op' = "none"
    /\ args' = NoArgs
    /\ result' = NoResult
    /\ before' = EmptyDB
    /\ UNCHANGED << stays, guests, ncalls, payload, cleaned, cleanpc, breakfast,
                    job, hook >>

Next == HandleWebhook \/ UpdateTomorrowsStays \/ Return

Spec == Init /\ [][Next]_vars


(***************************************************************************)
(* clean_webhook_payload on its own                                        *)
(***************************************************************************)
\* The payload is None, or any text of at most MaxTokens lexical units.
CleanInit ==
    /\ StoreInit
    /\ \/ payload = NonePayload
       \/ \E n \in 0..MaxTokens : \E t \in [1..n -> Alphabet] : payload = Text(t)
    /\ cleaned = [exc |-> "", val |-> NullNode]
    /\ cleanpc = "input"
    /\ breakfast = NoBreakfast
    /\ job = NoJob
    /\ hook = NoHook

\* clean_webhook_payload(payload) runs to its return, or to the exception
\* that leaves it.
Clean ==
    /\ cleanpc = "input"
    /\ cleaned' = clean_webhook_payload(payload)
    /\ cleanpc' = "done"
    /\ UNCHANGED << stays, guests, pc, op, args, result, before, ncalls, payload,
                    breakfast, job, hook >>

SpecClean == CleanInit /\ [][Clean]_vars

(***************************************************************************)
(* stay_has_breakfast on its own                                           *)
(***************************************************************************)
\* The lexical units of the answers given to stay_has_breakfast: those of
\* dicts with a breakfast flag or another key, and a unit that is no JSON.
BreakfastAlphabet ==
    { Tok("{", ""), Tok("}", ""), Tok(":", ""), Tok(",", ""),
      Tok("str", "BreakfastIncluded"), Tok("str", "k"), Tok("true", ""),
      Tok("false", ""), Tok("null", ""), Tok("junk", "") }

BreakfastInit ==
    /\ StoreInit
    /\ payload = NonePayload
    /\ cleaned = [exc |-> "", val |-> EmptyDict]
    /\ cleanpc = "done"
    /\ \/ breakfast = [NoBreakfast EXCEPT !.pc = "input"]
       \/ \E n \in 0..MaxTokens : \E t \in [1..n -> BreakfastAlphabet] :
            breakfast = [pc |-> "input", answer |-> ApiBody(Text(t)),
                         ret |-> NullNode]
    /\ job = NoJob
    /\ hook = NoHook

\* stay_has_breakfast(stay) runs to its return.
StayHasBreakfast ==
    /\ breakfast.pc = "input"
    /\ breakfast' = [breakfast EXCEPT !.pc = "done",
                                      !.ret = stay_has_breakfast(breakfast.answer)]
    /\ UNCHANGED << stays, guests, pc, op, args, result, before, ncalls,
                    payload, cleaned, cleanpc, job, hook >>

SpecBreakfast == BreakfastInit /\ [][StayHasBreakfast]_vars

(***************************************************************************)
(* A webhook delivered while the nightly job is under way                  *)
(***************************************************************************)
\* The calls that overlap: a nightly job over entries of hotel h1 and a
\* webhook of hotel h1, with a reservation in common.
OverlapStubLists ==
    UNION { [1..n -> {Stub(r, "h1") : r \in ReservationIds}] : n \in 1..MaxStubs }
OverlapEventLists ==
    UNION { [1..n -> {Event(r) : r \in ReservationIds}] : n \in 1..MaxEvents }

\* Lines 174-178: the entries the job iterates over.
JobEntries(stubs) ==
    Iterate(clean_webhook_payload(
              get_reservations_between_dates(
                [kind |-> "list", stubs |-> stubs]).body).val)

\* The job has its listing and is about to take its first entry; the webhook
\* has been delivered and its handler has not yet touched the store.
OverlapInit ==
    /\ StoreInit
    /\ payload = NonePayload
    /\ cleaned = [exc |-> "", val |-> EmptyDict]
    /\ cleanpc = "done"
    /\ breakfast = NoBreakfast
    /\ \E stubs \in OverlapStubLists, events \in OverlapEventLists :
         /\ IdsOf(stubs) \cap IdsOf(events) # {}
         /\ \E japi \in ApiChoices(IdsOf(stubs)), hapi \in ApiChoices(IdsOf(events)) :
              /\ job = [pc |-> "running", stubs |-> stubs, api |-> japi,
                        i |-> 1, ret |-> FALSE]
              /\ hook = [pc |-> "delivered",
                         data |-> [NoArgs EXCEPT !.HotelId = "h1",
                                                 !.hasEvents = TRUE,
                                                 !.Events = events,
                                                 !.api = hapi],
                         ret |-> FALSE]

\* Lines 227-236: the job after its entry i ended as e.  An exception ends
\* the job with False, the last entry with True.
job_after(e) ==
    IF e.exc # "" THEN [job EXCEPT !.pc = "done", !.ret = FALSE]
    ELSE IF job.i = Len(job.stubs) THEN [job EXCEPT !.pc = "done", !.ret = TRUE]
    ELSE [job EXCEPT !.i = job.i + 1]

JobEntryEnds(e) ==
    /\ stays' = e.db.stays
    /\ guests' = e.db.guests
    /\ job' = job_after(e)

\* Lines 179-224: the job takes its next entry; the transaction of the
\* entry (line 195) commits or rolls back before anything else touches the
\* store.
JobEntry ==
    /\ job.pc = "running"
    /\ JobEntryEnds(nightly_entry(DB, JobEntries(job.stubs)[job.i], job.i, job.api))
    /\ UNCHANGED << pc, op, args, result, before, ncalls, payload, cleaned,
                    cleanpc, breakfast, hook >>

HookEnds(r) ==
    /\ stays' = r.db.stays
    /\ guests' = r.db.guests
    /\ hook' = [hook EXCEPT !.pc = "done", !.ret = r.ret]

\* Lines 99-156: handle_webhook runs from its first read of the store to
\* its commit in one transaction (line 99).
HookRuns ==
    /\ hook.pc = "delivered"
    /\ HookEnds(handle_webhook(DB, hook.data, hook.data.api))
    /\ UNCHANGED << pc, op, args, result, before, ncalls, payload, cleaned,
                    cleanpc, breakfast, job >>

SpecOverlap == OverlapInit /\ [][JobEntry \/ HookRuns]_vars


(***************************************************************************)
(* Properties: vocabulary                                                  *)
(***************************************************************************)
\* The events of the webhook, or the entries of the nightly answer, of the
\* call that returned.
Items == IF op = "handle_webhook" THEN args.Events ELSE args.stubs
Positions == 1..Len(Items)
RidAt(i) == Items[i].ReservationId
HotelIdAt(i) == IF op = "handle_webhook" THEN args.HotelId ELSE args.stubs[i].HotelId
KnownHotel(hid) == \E h \in Hotel : h.pms_hotel_id = hid

\* The rows of a Stay table for a reservation id, and for a (reservation
\* id, hotel) pair.
RowsOf(tbl, rid) == { s \in tbl : s.pms_reservation_id = rid }
RowsAt(tbl, rid, hid) ==
    { s \in tbl : /\ s.pms_reservation_id = rid
                  /\ \E h \in Hotel : h.pms_hotel_id = hid /\ h.pk = s.hotel }

\* What the PMS held about the reservation at position i and its guest.
Asked(i) == RidAt(i) \in DOMAIN args.api
ResAt(i) == args.api[RidAt(i)].res
GuestAt(i) == args.api[RidAt(i)].guest

\* The handler made an external fetch for position i.
Reached(i) == \E k \in 1..Len(result.fetched) : result.fetched[k].i = i

\* The guest details of position i have no phone, or an empty one.
PhoneMissing(i) ==
    /\ Asked(i)
    /\ ~ResAt(i).err
    /\ \/ ResAt(i).d.GuestId = None
       \/ ~GuestAt(i).err /\ Falsy(GuestAt(i).d.Phone)

\* Position i names a reservation the PMS answers about in full: guest id,
\* ISO dates, status, and a guest with a phone and a name.
WellFormed(i) ==
    /\ Asked(i)
    /\ ~ResAt(i).err
    /\ ResAt(i).d.GuestId # None
    /\ IsoDate(ResAt(i).d.CheckInDate) # NoDate
    /\ IsoDate(ResAt(i).d.CheckOutDate) # NoDate
    /\ ~GuestAt(i).err
    /\ ~Falsy(GuestAt(i).d.Phone)
    /\ GuestAt(i).d.Name # None

\* The last position whose guest has the phone of position i's guest.
LastWithPhone(i) ==
    CHOOSE j \in Positions :
      /\ WellFormed(j) /\ GuestAt(j).d.Phone = GuestAt(i).d.Phone
      /\ \A k \in Positions :
           WellFormed(k) /\ GuestAt(k).d.Phone = GuestAt(i).d.Phone => k <= j

\* The Stay of position i carries the fetched reservation details.
StayCarries(s, i) ==
    /\ s.pms_guest_id = ResAt(i).d.GuestId
    /\ s.checkin = IsoDate(ResAt(i).d.CheckInDate)
    /\ s.checkout = IsoDate(ResAt(i).d.CheckOutDate)
    /\ s.status = ResAt(i).d.Status

(***************************************************************************)
(* C1  Reconciliation of one reservation is atomic.                        *)
(***************************************************************************)
\* C1: in every committed store each Stay references exactly one Guest, and
\* a reconciliation that did not run to its end leaves the Stay rows of its
\* (reservation id, hotel) pair as they were, unless another reconciliation
\* of the same call committed that pair.
C1_ReconciliationAtomic ==
    /\ \A s \in stays : Cardinality({ g \in guests : g.pk = s.guest }) = 1
    /\ pc = "returned" =>
         \A i \in Positions :
           (/\ i \notin result.done
            /\ \A j \in result.done :
                 RidAt(j) # RidAt(i) \/ HotelIdAt(j) # HotelIdAt(i))
           => RowsAt(stays, RidAt(i), HotelIdAt(i))
                = RowsAt(before.stays, RidAt(i), HotelIdAt(i))

\* A call that got as far as the Guest step of a reservation without a
\* phone, in a store that holds Stays.
C1_Witness ==
    /\ pc = "returned"
    /\ stays # {}
    /\ \E i \in Positions :
         Reached(i) /\ PhoneMissing(i) /\ i \notin result.done
         /\ RowsAt(stays, RidAt(i), HotelIdAt(i)) = {}

(***************************************************************************)
(* C2  A missing phone fails the reconciliation and commits nothing.       *)
(***************************************************************************)
\* C2: when a handler reaches a reservation whose guest details have no
\* phone or an empty one, it returns False, the reservation is not
\* reconciled, the Stay rows of that reservation are those of before the
\* call, no Guest without a phone exists, and if nothing was reconciled
\* before it the whole store is that of before the call.
C2_MissingPhoneCommitsNothing ==
    pc = "returned" =>
      \A i \in Positions :
        Reached(i) /\ PhoneMissing(i) =>
          /\ result.ret = FALSE
          /\ i \notin result.done
          /\ RowsOf(stays, RidAt(i)) = RowsOf(before.stays, RidAt(i))
          /\ \A g \in guests : ~Falsy(g.phone)
          /\ result.done = {} => DB = before

\* The reservation without a phone already had a Stay, with a status other
\* than the one fetched now.
C2_Witness ==
    /\ pc = "returned"
    /\ \E i \in Positions :
         /\ Reached(i) /\ PhoneMissing(i)
         /\ \E s \in RowsAt(stays, RidAt(i), HotelIdAt(i)) :
              s.status # ResAt(i).d.Status

(***************************************************************************)
(* C3  At most one Stay for each (pms_reservation_id, hotel) pair.         *)
(***************************************************************************)
\* C3: no two Stay rows have the same reservation id and hotel.
C3_OneStayPerPair ==
    \A s, t \in stays :
      s.pms_reservation_id = t.pms_reservation_id /\ s.hotel = t.hotel => s = t

\* A reservation reconciled again, with other details than the Stay had.
C3_Witness ==
    /\ pc = "returned"
    /\ \E i \in result.done :
         /\ RowsAt(before.stays, RidAt(i), HotelIdAt(i)) # {}
         /\ RowsAt(before.stays, RidAt(i), HotelIdAt(i))
              # RowsAt(stays, RidAt(i), HotelIdAt(i))

(***************************************************************************)
(* C4  Upsert idempotence.                                                 *)
(***************************************************************************)
\* C4: handling the webhook that just returned once more, with the PMS
\* answering the same, returns the same and leaves the whole store as it is,
\* with exactly one Stay row for each reconciled event.
C4_UpsertIdempotent ==
    pc = "returned" /\ op = "handle_webhook" =>
      LET again == handle_webhook(DB, args, args.api) IN
      /\ again.ret = result.ret
      /\ again.db = DB
      /\ again.done = result.done
      /\ \A i \in result.done :
           Cardinality(RowsAt(again.db.stays, RidAt(i), HotelIdAt(i))) = 1

\* A second pass: a webhook that reconciled its events and left the store
\* as it found it.
C4_Witness ==
    /\ pc = "returned" /\ op = "handle_webhook"
    /\ result.ret /\ result.done # {}
    /\ DB = before


(***************************************************************************)
(* C5  A valid payload creates or updates one Stay and one Guest per event.*)
(***************************************************************************)
\* A webhook for a known hotel, every event of which is well formed.
ValidWebhook ==
    /\ pc = "returned" /\ op = "handle_webhook"
    /\ KnownHotel(args.HotelId)
    /\ args.hasEvents
    /\ \A i \in Positions : WellFormed(i)

\* The (reservation id, hotel) of event i has one Stay, carrying the fetched
\* details and linked to the one Guest with the fetched phone, whose name is
\* the name fetched for event j.
OneStayOneGuest(i, j) ==
    /\ Cardinality(RowsAt(stays, RidAt(i), HotelIdAt(i))) = 1
    /\ Cardinality({ g \in guests : g.phone = GuestAt(i).d.Phone }) = 1
    /\ \A s \in RowsAt(stays, RidAt(i), HotelIdAt(i)) :
         /\ StayCarries(s, i)
         /\ \E g \in guests :
              /\ g.pk = s.guest
              /\ g.phone = GuestAt(i).d.Phone
              /\ g.name = GuestAt(j).d.Name

\* C5 as stated: after a valid webhook, handle_webhook has returned True and
\* every event has its Stay, linked to the Guest whose phone and name are
\* those fetched for that event.
C5_AsStated ==
    ValidWebhook =>
      /\ result.ret = TRUE
      /\ \A i \in Positions : OneStayOneGuest(i, i)

\* C5, amended: after a valid webhook, handle_webhook has returned True and
\* every event has its Stay, linked to the Guest with the phone fetched for
\* that event; the Guest's name is the one fetched for the last event of
\* the payload whose guest has that phone.
C5_ValidWebhookReconciled ==
    ValidWebhook =>
      /\ result.ret = TRUE
      /\ result.done = Positions
      /\ \A i \in Positions : OneStayOneGuest(i, LastWithPhone(i))

\* A valid webhook of two events whose guests share a phone and differ in
\* name, over a Stay that had other details.
C5_Witness ==
    /\ ValidWebhook
    /\ \E i, j \in Positions :
         /\ i < j
         /\ GuestAt(i).d.Phone = GuestAt(j).d.Phone
         /\ GuestAt(i).d.Name # GuestAt(j).d.Name
         /\ \E s \in RowsAt(before.stays, RidAt(j), HotelIdAt(j)) : ~StayCarries(s, j)

(***************************************************************************)
(* C6  Per-event failure isolation in handle_webhook.                      *)
(***************************************************************************)
\* Event i fails validation: no reservation id, or a guest without phone.
FailsValidation(i) == Falsy(RidAt(i)) \/ PhoneMissing(i)

\* C6 as stated: when an event of a webhook for a known hotel fails
\* validation, every other event that is well formed is still fetched and
\* reconciled, and its Stay is committed when the call ends.
C6_AsStated ==
    (/\ pc = "returned" /\ op = "handle_webhook"
     /\ KnownHotel(args.HotelId) /\ args.hasEvents)
    => \A i, j \in Positions :
         FailsValidation(i) /\ j # i /\ WellFormed(j)
         => /\ Reached(j)
            /\ j \in result.done
            /\ RowsAt(stays, RidAt(j), HotelIdAt(j)) # {}

(***************************************************************************)
(* C7  handle_webhook reports an overall failure if any event fails.       *)
(***************************************************************************)
\* Event i fails: no reservation id, an API error for the reservation or
\* for its guest, or a guest without phone.
EventFails(i) ==
    \/ Falsy(RidAt(i))
    \/ Asked(i) /\ ResAt(i).err
    \/ Asked(i) /\ ~ResAt(i).err /\ ResAt(i).d.GuestId # None /\ GuestAt(i).err
    \/ PhoneMissing(i)

\* C7: handle_webhook returns True only if every event of the payload was
\* reconciled and its Stay, linked to a Guest, is in the store; it returns
\* False whenever some event fails.
C7_FailureReported ==
    pc = "returned" /\ op = "handle_webhook" =>
      /\ result.ret = TRUE =>
           /\ result.done = Positions
           /\ \A i \in Positions :
                \E s \in RowsAt(stays, RidAt(i), HotelIdAt(i)) :
                  \E g \in guests : g.pk = s.guest
      /\ (\E i \in Positions : EventFails(i)) => result.ret = FALSE

\* A webhook whose first event was reconciled and whose second failed.
C7_Witness ==
    /\ pc = "returned" /\ op = "handle_webhook"
    /\ result.ret = FALSE
    /\ result.done = {1}
    /\ Len(args.Events) = 2 /\ EventFails(2)


(***************************************************************************)
(* C8  clean_webhook_payload fails closed.                                 *)
(***************************************************************************)
\* The JSON grammar, as the set of syntax trees whose text has at most n
\* tokens: scalars, lists of values, dicts of "k": value items.
Scalars == { StrNode("k"), NumNode("1"), NullNode }

RECURSIVE JsonTrees(_)
RECURSIVE JsonLists(_)
RECURSIVE JsonItems(_)
JsonTrees(n) ==
    IF n < 1 THEN {}
    ELSE Scalars \cup
         (IF n < 2 THEN {}
          ELSE { ArrNode(<< >>), EmptyDict }
               \cup { ArrNode(l) : l \in JsonLists(n - 2) }
               \cup { ObjNode(l) : l \in JsonItems(n - 2) })

\* Non-empty lists of values whose text, commas included, has at most n
\* tokens.
JsonLists(n) ==
    IF n < 1 THEN {}
    ELSE { << v >> : v \in JsonTrees(n) }
         \cup UNION { { << v >> \o l : l \in JsonLists(n - Len(Dumps(v)) - 1) } :
                      v \in JsonTrees(n - 2) }

\* Non-empty lists of items likewise; a key may come more than once.
JsonItems(n) ==
    IF n < 3 THEN {}
    ELSE { << PairNode("k", v) >> : v \in JsonTrees(n - 2) }
         \cup UNION { { << PairNode("k", v) >> \o l :
                          l \in JsonItems(n - Len(Dumps(v)) - 3) } :
                      v \in JsonTrees(n - 6) }

\* The value a syntax tree denotes: in a dict the last item of a key wins.
RECURSIVE Denotes(_)
RECURSIVE DenotesItems(_, _, _)
Denotes(n) ==
    CASE n.t = "arr" -> ArrNode([i \in 1..Len(n.kids) |-> Denotes(n.kids[i])])
      [] n.t = "obj" -> ObjNode(DenotesItems(n.kids, 1, << >>))
      [] OTHER -> n

DenotesItems(kids, i, acc) ==
    IF i > Len(kids) THEN acc
    ELSE DenotesItems(kids, i + 1,
                      DictPut(acc, kids[i].v, Denotes(kids[i].kids[1])))

\* The valid JSON texts of at most MaxTokens tokens, and the value of each.
ValidJson == { Dumps(v) : v \in JsonTrees(MaxTokens) }
ValueOf == [t \in ValidJson |->
              Denotes(CHOOSE v \in JsonTrees(MaxTokens) : Dumps(v) = t)]

\* C8: clean_webhook_payload lets no exception out; it returns the parsed
\* value of a text that is valid JSON, and the empty dict for None, for the
\* empty text and for every text that is not valid JSON.
C8_CleanFailsClosed ==
    cleanpc = "done" =>
      /\ cleaned.exc = ""
      /\ IF ~payload.isNone /\ payload.text \in ValidJson
         THEN cleaned.val = ValueOf[payload.text]
         ELSE cleaned.val = EmptyDict

\* `not-json` has been cleaned.
C8_Witness ==
    /\ cleanpc = "done"
    /\ payload = Text(<< Tok("junk", "") >>)
    /\ cleaned = [exc |-> "", val |-> EmptyDict]

(***************************************************************************)
(* C9  The nightly job skips entries lacking an id.                        *)
(***************************************************************************)
\* Entry i lacks its reservation id or its hotel id.
LacksId(i) == Falsy(args.stubs[i].ReservationId) \/ Falsy(args.stubs[i].HotelId)

\* C9: once the PMS has answered with tomorrow's entries, the nightly job
\* makes no fetch for an entry lacking an id and writes nothing when every
\* entry lacks one; it goes on with the entry after a
\* skipped one; and when every other entry is well formed and names a known
\* hotel it returns True, with a Stay linked to a Guest for each of them.
C9_StubsSkipped ==
    pc = "returned" /\ op = "update_tomorrows_stays" /\ args.tomorrow # "error" =>
      /\ \A i \in Positions : LacksId(i) => ~Reached(i) /\ i \notin result.done
      /\ (\A i \in Positions : LacksId(i)) => DB = before /\ result.ret = TRUE
      /\ \A i \in Positions :
           i \in result.skipped /\ i < Len(args.stubs) /\ ~LacksId(i + 1)
           => Reached(i + 1)
      /\ (\A i \in Positions :
            LacksId(i) \/ (WellFormed(i) /\ KnownHotel(HotelIdAt(i))))
         => /\ result.ret = TRUE
            /\ result.skipped = { i \in Positions : LacksId(i) }
            /\ result.done = { i \in Positions : ~LacksId(i) }
            /\ \A i \in result.done :
                 \E s \in RowsAt(stays, RidAt(i), HotelIdAt(i)) :
                   \E g \in guests : g.pk = s.guest

\* A run that skipped its first entry and reconciled its second.
C9_Witness ==
    /\ pc = "returned" /\ op = "update_tomorrows_stays"
    /\ result.ret = TRUE
    /\ Len(args.stubs) = 2
    /\ LacksId(1) /\ result.skipped = {1} /\ result.done = {2}
    /\ stays # before.stays

(***************************************************************************)
(* C10  The Guest's language is derived from the country code.             *)
(***************************************************************************)
\* The language the specification gives a country code.
LanguageOf(country) ==
    CASE country = None -> "No country code"
      [] country = "de" -> "German"
      [] country = "nl" -> "Dutch"
      [] OTHER -> "Unknown"

\* C10 as stated: the Guest written by a reconciliation has the language of
\* a country code fetched with its phone during the call, and no country
\* code makes a reconciliation fail.
C10_AsStated ==
    pc = "returned" =>
      /\ \A i \in result.done :
           \A g \in guests :
             g.phone = GuestAt(i).d.Phone
             => \E j \in result.done :
                  /\ GuestAt(j).d.Phone = g.phone
                  /\ g.language = LanguageOf(GuestAt(j).d.Country)
      /\ \A i \in Positions :
           (/\ WellFormed(i) /\ KnownHotel(HotelIdAt(i))
            /\ \A j \in 1..(i - 1) : j \in result.done \cup result.skipped)
           => i \in result.done

(***************************************************************************)
(* C11  Name validation.                                                   *)
(***************************************************************************)
\* The guest details fetched for position i have no Name, or an empty one.
NameMissing(i) ==
    /\ Asked(i)
    /\ ~ResAt(i).err
    /\ ResAt(i).d.GuestId # None
    /\ ~GuestAt(i).err
    /\ Falsy(GuestAt(i).d.Name)

\* C11 as stated: a reservation whose guest details have a missing or blank
\* Name is not reconciled, the handler returns False, the Stay rows of the
\* reservation are those of before the call, and every Guest in the store
\* has a non-empty name.
C11_AsStated ==
    /\ \A g \in guests : ~Falsy(g.name)
    /\ pc = "returned" =>
         \A i \in Positions :
           Reached(i) /\ NameMissing(i) =>
             /\ result.ret = FALSE
             /\ i \notin result.done
             /\ RowsOf(stays, RidAt(i)) = RowsOf(before.stays, RidAt(i))

(***************************************************************************)
(* C12  API errors are caught and translated to False.                     *)
(***************************************************************************)
\* A fetch made for position i raises an API error: the reservation fetch,
\* or the guest fetch of a reservation that names a guest.
ApiFails(i) ==
    /\ Asked(i)
    /\ \/ ResAt(i).err
       \/ ~ResAt(i).err /\ ResAt(i).d.GuestId # None /\ GuestAt(i).err

\* C12: a handler that met an API error has returned False: the nightly job
\* whose listing failed has fetched and written nothing, and a position
\* whose reservation or guest fetch failed is not reconciled, the Stay rows
\* of its reservation are those of before the call, and so is the whole
\* store when nothing was reconciled before it.
C12_ApiErrorIsFalse ==
    pc = "returned" =>
      /\ (op = "update_tomorrows_stays" /\ args.tomorrow = "error")
         => result = [NoResult EXCEPT !.ret = FALSE] /\ DB = before
      /\ \A i \in Positions :
           Reached(i) /\ ApiFails(i) =>
             /\ result.ret = FALSE
             /\ i \notin result.done
             /\ RowsOf(stays, RidAt(i)) = RowsOf(before.stays, RidAt(i))
             /\ result.done = {} => DB = before

\* The nightly job asked for the guest of an entry, after the Stay upsert
\* of a new reservation, and the PMS answered with an error.
C12_Witness ==
    /\ pc = "returned" /\ op = "update_tomorrows_stays"
    /\ \E i \in Positions :
         /\ \E k \in 1..Len(result.fetched) :
              result.fetched[k].i = i /\ result.fetched[k].what = "guest"
         /\ GuestAt(i).err
         /\ RowsOf(before.stays, RidAt(i)) = {}
         /\ RowsOf(stays, RidAt(i)) = {}

(***************************************************************************)
(* C13  A webhook for no known hotel changes nothing.                      *)
(***************************************************************************)
\* C13: handle_webhook on a payload whose HotelId is absent, empty or that
\* of no Hotel has returned False, has made no fetch, has reconciled no
\* event and has left the whole store as it was.
C13_UnknownHotelNoEffect ==
    (pc = "returned" /\ op = "handle_webhook" /\ ~KnownHotel(args.HotelId))
    => /\ result.ret = FALSE
       /\ result.fetched = << >>
       /\ result.done = {}
       /\ DB = before

\* A webhook for a hotel id that matches no Hotel, listing a well-formed
\* event, over a store that holds a Stay.
C13_Witness ==
    /\ pc = "returned" /\ op = "handle_webhook"
    /\ args.HotelId = "h9"
    /\ \E i \in Positions : WellFormed(i)
    /\ before.stays # {}

(***************************************************************************)
(* C14  stay_has_breakfast: True, False, or None when not known.           *)
(***************************************************************************)
\* The answer is a JSON dict whose BreakfastIncluded is true or false.
BreakfastKnown ==
    /\ ~breakfast.answer.err
    /\ json_loads(breakfast.answer.body).exc = ""
    /\ json_loads(breakfast.answer.body).val.t = "obj"
    /\ \E i \in 1..Len(json_loads(breakfast.answer.body).val.kids) :
         LET item == json_loads(breakfast.answer.body).val.kids[i] IN
         item.v = "BreakfastIncluded" /\ item.kids[1].t = "bool"

\* C14 as stated: stay_has_breakfast returns the breakfast flag of the
\* reservation details when they carry one, and None when they cannot be
\* fetched, cannot be parsed or carry no flag.
C14_AsStated ==
    breakfast.pc = "done" =>
      IF BreakfastKnown
      THEN \E i \in 1..Len(json_loads(breakfast.answer.body).val.kids) :
             LET item == json_loads(breakfast.answer.body).val.kids[i] IN
             item.v = "BreakfastIncluded" /\ breakfast.ret = item.kids[1]
      ELSE breakfast.ret = NullNode

(***************************************************************************)
(* C15  Guests are keyed by phone.                                         *)
(***************************************************************************)
\* The last reconciled position of the call whose guest has the phone of
\* position i.
LastDoneWithPhone(i) ==
    CHOOSE j \in result.done :
      /\ GuestAt(j).d.Phone = GuestAt(i).d.Phone
      /\ \A k \in result.done :
           GuestAt(k).d.Phone = GuestAt(i).d.Phone => k <= j

\* C15: every Guest has a non-empty phone and no two Guests share one; a
\* call keeps every Guest it found, under its key and its phone; and the
\* Stays of all positions reconciled with the same phone are linked to the
\* one Guest with that phone, whose name is the one fetched for the last of
\* these positions.
C15_GuestsKeyedByPhone ==
    /\ \A g \in guests : ~Falsy(g.phone)
    /\ \A g, h \in guests : g.phone = h.phone => g = h
    /\ pc = "returned" =>
         /\ \A g \in before.guests :
              \E h \in guests : h.pk = g.pk /\ h.phone = g.phone
         /\ \A i \in result.done :
              \E g \in guests :
                /\ g.phone = GuestAt(i).d.Phone
                /\ g.name = GuestAt(LastDoneWithPhone(i)).d.Name
                /\ RowsAt(stays, RidAt(i), HotelIdAt(i)) # {}
                /\ \A st \in RowsAt(stays, RidAt(i), HotelIdAt(i)) :
                     st.guest = g.pk

\* Two different reservations reconciled in one call, their guests having
\* the same phone and different names, the Guest being there before.
C15_Witness ==
    /\ pc = "returned"
    /\ \E i, j \in result.done :
         /\ i < j
         /\ RidAt(i) # RidAt(j)
         /\ GuestAt(i).d.Phone = GuestAt(j).d.Phone
         /\ GuestAt(i).d.Name # GuestAt(j).d.Name
         /\ \E g \in before.guests :
              g.phone = GuestAt(j).d.Phone /\ g.name # GuestAt(j).d.Name

(***************************************************************************)
(* C16  The nightly job reconciles as the webhook handler does.            *)
(***************************************************************************)
\* The entries the nightly job would be given for the events of the webhook
\* that just returned.
SameAsEntries ==
    [i \in 1..Len(args.Events) |-> Stub(args.Events[i].ReservationId, args.HotelId)]

JobAlone(db) ==
    update_tomorrows_stays(db, [kind |-> "list", stubs |-> job.stubs], job.api).db
HookAlone(db) == handle_webhook(db, hook.data, hook.data.api).db

\* The records of a store without their primary keys: each Guest as its
\* phone, name and language, each Stay with the phone of its Guest.
PhoneOf(db, pk) ==
    IF \E g \in db.guests : g.pk = pk
    THEN (CHOOSE g \in db.guests : g.pk = pk).phone
    ELSE None
Records(db) ==
    [stays |-> { [st EXCEPT !.guest = PhoneOf(db, st.guest)] : st \in db.stays },
     guests |-> { [phone |-> g.phone, name |-> g.name, language |-> g.language] :
                  g \in db.guests }]

\* C17 as stated: when a nightly job and a webhook handler that reconcile
\* the same (reservation id, hotel) have both ended, however their
\* transactions interleaved, the store is the one that running the two
\* calls one after the other, in one of the two orders, produces (the same
\* records, whatever their primary keys), and it has at most one Stay for the pair, linked to one Guest.
C17_AsStated ==
    (job.pc = "done" /\ hook.pc = "done")
    => /\ Records(DB) \in { Records(HookAlone(JobAlone(before))),
                           Records(JobAlone(HookAlone(before))) }
       /\ \A rid \in IdsOf(job.stubs) \cap IdsOf(hook.data.Events) :
            /\ Cardinality(RowsOf(stays, rid)) <= 1
            /\ \A st \in RowsOf(stays, rid) :
                 Cardinality({ g \in guests : g.pk = st.guest }) = 1

(***************************************************************************)
(* C18  A webhook that fails at an event keeps the events before it.       *)
(***************************************************************************)
\* The webhook of the call that returned, cut after its first n events.
FirstEvents(n) == [args EXCEPT !.Events = SubSeq(args.Events, 1, n)]

\* C18: when handle_webhook, given a webhook of a known hotel with its
\* list of events, returns False, there is an event k at which it failed: the events before k are
\* the ones reconciled, no fetch was made for an event after k, and the
\* store is the one that the webhook cut before event k leaves when it
\* returns True, so that the writes of the events before k are committed
\* and event k has written nothing.
C18_FailureKeepsEarlierEvents ==
    (/\ pc = "returned" /\ op = "handle_webhook"
     /\ ~result.ret /\ KnownHotel(args.HotelId) /\ args.hasEvents)
    => \E k \in Positions :
         /\ result.done = 1..(k - 1)
         /\ \A n \in 1..Len(result.fetched) : result.fetched[n].i <= k
         /\ handle_webhook(before, FirstEvents(k - 1), args.api)
              = [ret |-> TRUE, db |-> DB,
                 fetched |-> SelectSeq(result.fetched, LAMBDA f : f.i < k),
                 done |-> result.done, skipped |-> {}]

\* handle_webhook has returned False at its second event, after the first
\* one changed the store; and it has returned False at the first of two
\* events.
C18_Witness ==
    /\ pc = "returned" /\ op = "handle_webhook"
    /\ ~result.ret /\ KnownHotel(args.HotelId)
    /\ result.done = {1}
    /\ Len(args.Events) = 2
    /\ DB # before

(***************************************************************************)
(* C19  The nightly job ends at its first failing entry.                   *)
(***************************************************************************)
\* The listing of the job that returned, cut after its first n entries.
FirstEntries(n) == [kind |-> "list", stubs |-> SubSeq(args.stubs, 1, n)]

\* C19: when update_tomorrows_stays has its listing and returns, it returns
\* True exactly when every entry was skipped or reconciled; and when it
\* returns False there is an entry k at which it failed: the entries before
\* k are the ones skipped or reconciled, no fetch was made for an entry
\* after k, and the store is the one that the listing cut before entry k
\* leaves when the job returns True, so that the writes of the entries
\* before k are committed and entry k has written nothing.
C19_FirstFailureEndsJob ==
    (/\ pc = "returned" /\ op = "update_tomorrows_stays"
     /\ args.tomorrow = "list")
    => /\ result.ret <=> (result.done \cup result.skipped = Positions)
       /\ result.done \cap result.skipped = {}
       /\ ~result.ret =>
            \E k \in Positions :
              /\ result.done \cup result.skipped = 1..(k - 1)
              /\ \A n \in 1..Len(result.fetched) : result.fetched[n].i <= k
              /\ update_tomorrows_stays(before, FirstEntries(k - 1), args.api)
                   = [ret |-> TRUE, db |-> DB,
                      fetched |-> SelectSeq(result.fetched, LAMBDA f : f.i < k),
                      done |-> result.done, skipped |-> result.skipped]

\* The job has returned False at the second of two entries, after the
\* first one changed the store.
C19_Witness ==
    /\ pc = "returned" /\ op = "update_tomorrows_stays"
    /\ args.tomorrow = "list"
    /\ ~result.ret
    /\ result.done = {1}
    /\ Len(args.stubs) = 2
    /\ DB # before

====
